---- MODULE Spec2Model ----
(***************************************************************************)
(* A model of the four-part chorale solver (chorale-solver.cpp,            *)
(* chorale-constants.h).  Vectors of the program are TLA+ sequences; the   *)
(* program's 0-based index i is position i+1 of the sequence.              *)
(***************************************************************************)
EXTENDS Integers, Sequences, FiniteSets, TLC

(* ---------------- chorale-constants.h ---------------- *)
BASS_MIN == 0
BASS_MAX == 24
TENOR_MIN == 12
TENOR_MAX == 31
ALTO_MIN == 19
ALTO_MAX == 36
SOPRANO_MIN == 24
SOPRANO_MAX == 43

(* ---------------- bounds of the model ---------------- *)
\* longest bass line the user types in
MaxLen == 4
\* highest starting note the user types in (the program allows BASS_MAX)
MaxStart == 5

\* What a read outside a std::vector may deliver: a value below every voice
\* range, one inside every voice range, one above every voice range.
Garbage == {-7, 28, 100}

(* ---------------- C++ arithmetic and vectors ---------------- *)
\* the % operator of C++ (truncated division: the sign of the dividend)
CRem(a, b) == IF a >= 0 THEN a % b ELSE -((-a) % b)

\* v[i] of a 0-based vector
At(v, i) == v[i + 1]

InBounds(v, i) == i >= 0 /\ i < Len(v)

\* v[i] of a std::vector, unchecked: outside the vector the read is undefined
\* and delivers g
Read(v, i, g) == IF InBounds(v, i) THEN v[i + 1] ELSE g

\* v.back()
Back(v) == v[Len(v)]

\* Vector<int>::remove(index): the element at 0-based position index is taken out
Remove(v, i) == [k \in 1..(Len(v) - 1) |-> IF k <= i THEN v[k] ELSE v[k + 1]]

Range(v) == {v[k] : k \in 1..Len(v)}

(* ---------------- setUpChordRels ---------------- *)
\* reads the global majorKey (key)
setUpChordRels(key) ==
    LET base == << <<>>, <<1, 2, 3, 4, 5, 6, 7>>, <<5, 7>>, <<4, 6>>,
                   <<1, 2, 5>>, <<1, 6>>, <<2, 4>>, <<1, 5>> >>
    IN  IF key THEN base
        ELSE Append([base EXCEPT ![2] = Append(base[2], 8)], <<3>>)

(* ---------------- notInScale ---------------- *)
notInScale(nextNote, startNote, key) ==
    LET d0 == CRem(nextNote - startNote, 12)
        distance == IF d0 < 0 THEN d0 + 12 ELSE d0
    IN  IF key /\ distance \in {1, 3, 6, 8, 10} THEN TRUE
        ELSE IF ~key /\ distance \in {1, 4, 6, 9} THEN TRUE
        ELSE FALSE

(* ---------------- distanceToChord ---------------- *)
\* while (distance < 0) distance += 12
RECURSIVE makePositive(_)
makePositive(distance) == IF distance < 0 THEN makePositive(distance + 12) ELSE distance

\* reads the global majorKey (key)
distanceToChord(distance, key) ==
    LET d == makePositive(distance) % 12
    IN  IF key
        THEN CASE d = 0 -> 1 [] d = 2 -> 2 [] d = 4 -> 3 [] d = 5 -> 4
               [] d = 7 -> 5 [] d = 9 -> 6 [] d = 11 -> 7 [] OTHER -> 0
        ELSE CASE d = 0 -> 1 [] d = 2 -> 2 [] d = 3 -> 3 [] d = 5 -> 4
               [] d = 7 -> 5 [] d = 8 -> 6 [] d = 11 -> 7 [] d = 10 -> 8
               [] OTHER -> 0

(* ---------------- createChordProgression ---------------- *)
\* int firstInvChord = (nextChord - 2) % 12 without the special case of II
firstInversionPlain(bass, index, startingNote, nextChord, key) == CRem(nextChord - 2, 12)

\* int firstInvChord = (nextChord - 2) % 12, and the special case of II
firstInversion(bass, index, startingNote, nextChord, key) ==
    IF nextChord = 2
    THEN IF key THEN 7
         ELSE LET nextDistance == CRem(At(bass, index + 2) - startingNote, 12)
                  nextNextChord == distanceToChord(nextDistance, key)
              IN  IF nextNextChord = 3 THEN 8 ELSE 7
    ELSE CRem(nextChord - 2, 12)

\* chords.remove(index) after a failed recursive call
undoChord(chords, index) == Remove(chords, index)

RECURSIVE createChordProgressionRec(_, _, _, _, _, _, _)
RECURSIVE tryChord(_, _, _, _, _, _, _, _, _)

\* the result r of a call, with what happened before it in the same search
logged(r, undos, inversions) ==
    [r EXCEPT !.undos = @ \cup undos, !.inversions = @ \cup inversions]

\* for (int possibleChord : chordRelations[currentChord]) from its position k
\* on, with the candidate cand (nextChord or firstInvChord).  A result is
\* [ok |-> the loop returned true, chords |-> the vector it leaves,
\*  undos |-> for every chords.remove(index) of the search the candidate, the
\*            vector before the candidate was appended and the vector after
\*            the removal,
\*  inversions |-> for every firstInvChord the search computed the index, the
\*            nextChord, the value, and the indices of bass read for it].
tryChord(bass, chords, rel, index, startingNote, currentChord, cand, k, key) ==
    IF k >= Len(At(rel, currentChord))
    THEN [ok |-> FALSE, chords |-> chords, undos |-> {}, inversions |-> {}]
    ELSE IF At(At(rel, currentChord), k) = cand
         THEN LET r == createChordProgressionRec(bass, Append(chords, cand), rel,
                                                 index + 1, startingNote, cand, key)
                  after == undoChord(r.chords, index)
                  undo == [index |-> index, candidate |-> cand,
                           before |-> chords, after |-> after]
              IN  IF r.ok THEN r
                  ELSE logged(tryChord(bass, after, rel, index, startingNote,
                                       currentChord, cand, k + 1, key),
                              r.undos \cup {undo}, r.inversions)
         ELSE tryChord(bass, chords, rel, index, startingNote, currentChord,
                       cand, k + 1, key)

\* createChordProgression without its second loop: the first inversion is
\* never tried
createChordProgressionRootOnly(bass, chords, rel, index, startingNote, currentChord, key) ==
    IF index = Len(bass) - 2
    THEN IF currentChord # 5
         THEN [ok |-> FALSE, chords |-> chords, undos |-> {}, inversions |-> {}]
         ELSE [ok |-> TRUE, chords |-> Append(chords, 1), undos |-> {}, inversions |-> {}]
    ELSE LET distance == CRem(At(bass, index + 1) - startingNote, 12)
             chord0 == distanceToChord(distance, key)
             nextChord == IF chord0 = 7 THEN 5 ELSE chord0
         IN  tryChord(bass, chords, rel, index, startingNote, currentChord, nextChord, 0, key)

createChordProgressionRec(bass, chords, rel, index, startingNote, currentChord, key) ==
    IF index = Len(bass) - 2
    THEN IF currentChord # 5
         THEN [ok |-> FALSE, chords |-> chords, undos |-> {}, inversions |-> {}]
         ELSE [ok |-> TRUE, chords |-> Append(chords, 1), undos |-> {}, inversions |-> {}]
    ELSE LET distance == CRem(At(bass, index + 1) - startingNote, 12)
             chord0 == distanceToChord(distance, key)
             nextChord == IF chord0 = 7 THEN 5 ELSE chord0
             root == tryChord(bass, chords, rel, index, startingNote,
                              currentChord, nextChord, 0, key)
             firstInvChord == firstInversion(bass, index, startingNote, nextChord, key)
             inversion == [index |-> index, nextChord |-> nextChord,
                           candidate |-> firstInvChord,
                           reads |-> IF nextChord = 2 /\ ~key THEN {index + 2} ELSE {}]
         IN  IF root.ok THEN root
             ELSE logged(tryChord(bass, root.chords, rel, index, startingNote,
                                  currentChord, firstInvChord, 0, key),
                         root.undos, root.inversions \cup {inversion})

\* the wrapper: chords starts as <<1>>
createChordProgression(bass, rel, key) ==
    createChordProgressionRec(bass, <<1>>, rel, 0, At(bass, 0), 1, key)

(* ---------------- fill*ChordVector ---------------- *)
\* The loop shared by the three fill functions: push index, step i1, push,
\* step i2, push, step i3, while index <= SOPRANO_MAX.
\* fillTriad without the two inner "if (index <= SOPRANO_MAX)" checks
RECURSIVE fillTriadUnchecked(_, _, _, _, _)
fillTriadUnchecked(v, index, i1, i2, i3) ==
    IF index <= SOPRANO_MAX
    THEN fillTriadUnchecked(v \o <<index, index + i1, index + i1 + i2>>,
                            index + i1 + i2 + i3, i1, i2, i3)
    ELSE v

RECURSIVE fillTriad(_, _, _, _, _)
fillTriad(v, index, i1, i2, i3) ==
    IF index <= SOPRANO_MAX
    THEN LET v1 == Append(v, index)
             x1 == index + i1
         IN  IF x1 <= SOPRANO_MAX
             THEN LET v2 == Append(v1, x1)
                      x2 == x1 + i2
                  IN  IF x2 <= SOPRANO_MAX
                      THEN fillTriad(Append(v2, x2), x2 + i3, i1, i2, i3)
                      ELSE fillTriad(v2, x2, i1, i2, i3)
             ELSE fillTriad(v1, x1, i1, i2, i3)
    ELSE v

fillMajorChordVector(v, index) == fillTriad(v, index, 4, 3, 5)

fillMinorChordVector(v, index) == fillTriad(v, index, 3, 4, 5)

fillDimChordVector(v, index) == fillTriad(v, index, 3, 3, 6)

(* ---------------- establishNotesInChords ---------------- *)
\* while (startNote >= 12) startNote -= 12
RECURSIVE lowestOctave(_)
lowestOctave(startNote) == IF startNote >= 12 THEN lowestOctave(startNote - 12) ELSE startNote

\* the 9 empty sub-vectors
emptyNotesInChords == [k \in 1..9 |-> <<>>]

\* the last degree the loop fills
lastDegree(key) == IF key THEN 7 ELSE 8

\* one pass of the loop body for degree i: the entry of i filled
fillDegree(n, i, root, key) ==
    IF key
    THEN IF i \in {1, 4, 5} THEN [n EXCEPT ![i + 1] = fillMajorChordVector(n[i + 1], root)]
         ELSE IF i \in {2, 3, 6} THEN [n EXCEPT ![i + 1] = fillMinorChordVector(n[i + 1], root)]
         ELSE IF i = 7 THEN [n EXCEPT ![i + 1] = fillDimChordVector(n[i + 1], root)]
         ELSE n
    ELSE IF i \in {3, 5, 6, 8} THEN [n EXCEPT ![i + 1] = fillMajorChordVector(n[i + 1], root)]
         ELSE IF i \in {1, 4} THEN [n EXCEPT ![i + 1] = fillMinorChordVector(n[i + 1], root)]
         ELSE IF i \in {2, 7} THEN [n EXCEPT ![i + 1] = fillDimChordVector(n[i + 1], root)]
         ELSE n

\* "Increment interval": distance after the pass for degree i
nextDistance(distance, i, key) ==
    IF key
    THEN distance + 1 + (IF i # 3 THEN 1 ELSE 0)
    ELSE distance + 1 + (IF i # 2 /\ i # 5 THEN 1 ELSE 0)
                  + (IF i = 6 THEN 1 ELSE 0) - (IF i = 7 THEN 2 ELSE 0)

RECURSIVE establishLoop(_, _, _, _, _)
establishLoop(n, i, distance, startNote, key) ==
    IF i <= lastDegree(key)
    THEN establishLoop(fillDegree(n, i, startNote + distance, key), i + 1,
                       nextDistance(distance, i, key), startNote, key)
    ELSE n

establishNotesInChords(startNote, key) ==
    establishLoop(emptyNotesInChords, 1, 0, lowestOctave(startNote), key)

(* ---------------- nextLowerNote, nextHigherNote ---------------- *)
\* the binary search of nextLowerNote: the index whose element is returned
RECURSIVE lowerIndex(_, _, _, _)
lowerIndex(chord, note, lhs, rhs) ==
    IF lhs <= rhs
    THEN LET avg == (lhs + rhs) \div 2
         IN  IF At(chord, avg) = note THEN avg
             ELSE IF At(chord, avg) < note THEN lowerIndex(chord, note, avg + 1, rhs)
             ELSE lowerIndex(chord, note, lhs, avg - 1)
    ELSE rhs

\* nextHigherNote ending with "return chord[rhs]", as nextLowerNote does
higherIndexLow(chord, note, lhs, rhs) == lowerIndex(chord, note, lhs, rhs)

\* the binary search of nextHigherNote: the index whose element is returned
RECURSIVE higherIndex(_, _, _, _)
higherIndex(chord, note, lhs, rhs) ==
    IF lhs <= rhs
    THEN LET avg == (lhs + rhs + 1) \div 2
         IN  IF At(chord, avg) = note THEN avg
             ELSE IF At(chord, avg) < note THEN higherIndex(chord, note, avg + 1, rhs)
             ELSE higherIndex(chord, note, lhs, avg - 1)
    ELSE lhs

nextLowerNote(chord, note, g) == Read(chord, lowerIndex(chord, note, 0, Len(chord) - 1), g)

nextHigherNote(chord, note, g) == Read(chord, higherIndex(chord, note, 0, Len(chord) - 1), g)

\* the call reads outside the vector
lowerOutside(chord, note) == ~InBounds(chord, lowerIndex(chord, note, 0, Len(chord) - 1))

higherOutside(chord, note) == ~InBounds(chord, higherIndex(chord, note, 0, Len(chord) - 1))

(* ---------------- canCreateChoraleHelper ---------------- *)
\* "Make sure parts are not going out of range", the check on entry
outOfRange(soprano, alto, tenor) ==
    \/ Back(soprano) > SOPRANO_MAX \/ Back(alto) > ALTO_MAX \/ Back(tenor) > TENOR_MAX
    \/ Back(soprano) < SOPRANO_MIN \/ Back(alto) < ALTO_MIN \/ Back(tenor) < TENOR_MIN

\* the check after the voices moved up
aboveRange(soprano, alto, tenor) ==
    Back(soprano) > SOPRANO_MAX \/ Back(alto) > ALTO_MAX \/ Back(tenor) > TENOR_MAX

\* "Voice crossing - tenor lower than upcoming bass"
voiceCrossing(tenor, bass, index) ==
    index < Len(bass) - 1 /\ Back(tenor) < At(bass, index + 1)

\* the bass is moving down (the voices move up for a falling bass only)
movesUpFalling(bass, index) == At(bass, index) < At(bass, index - 1)

\* the bass is moving down, or up a distance of 5
movesUp(bass, index) ==
    At(bass, index) < At(bass, index - 1) \/ At(bass, index) - At(bass, index - 1) = 5

\* the soprano has a leading tone (whatever the previous chord is)
leadingToneAnyChord(chords, soprano, bass, index, key) ==
    distanceToChord(Back(soprano) - At(bass, 0), key) = 7

\* previous chord is V and the soprano has a leading tone
leadingTone(chords, soprano, bass, index, key) ==
    At(chords, index - 1) = 5 /\ distanceToChord(Back(soprano) - At(bass, 0), key) = 7

\* A result is [ok |-> the value returned, soprano, alto, tenor |-> the vectors as
\* the call leaves them, ub |-> a nearest-note call read outside its chord,
\* steps |-> for every index at which the call and the calls it made got past
\*           the range check, in order: the branch taken ("up", "down", or
\*           "same" when the bass repeats its note and nothing is pushed),
\*           LTCorrected on entry (flag) and on the way to the next index
\*           (flagAfter), whether the leading-tone exception applied, the
\*           notes passed to the nearest-note calls for soprano, alto, tenor
\*           (from; for the soprano of an exception its last pitch), and the
\*           last pitches of the three vectors before and after].
RECURSIVE canCreateChoraleHelper(_, _, _, _, _, _, _, _, _, _, _)
canCreateChoraleHelper(chords, n, soprano, alto, tenor, bass, index, LTCorrected, key, g, ub) ==
    IF index >= Len(chords)
    THEN [ok |-> TRUE, soprano |-> soprano, alto |-> alto, tenor |-> tenor, ub |-> ub,
          steps |-> <<>>]
    ELSE IF outOfRange(soprano, alto, tenor)
    THEN [ok |-> FALSE, soprano |-> soprano, alto |-> alto, tenor |-> tenor, ub |-> ub,
          steps |-> <<>>]
    ELSE LET entry == At(n, At(chords, index))
             previous == <<Back(soprano), Back(alto), Back(tenor)>>
         IN
         IF movesUp(bass, index)
         THEN LET sFrom == IF LTCorrected THEN Back(soprano) - 3 ELSE Back(soprano)
                  s2 == Append(soprano, nextHigherNote(entry, sFrom, g))
                  a2 == Append(alto, nextHigherNote(entry, Back(alto), g))
                  t2 == Append(tenor, nextHigherNote(entry, Back(tenor), g))
                  ub2 == \/ ub \/ higherOutside(entry, sFrom)
                         \/ higherOutside(entry, Back(alto))
                         \/ higherOutside(entry, Back(tenor))
                  step == [index |-> index, branch |-> "up", flag |-> LTCorrected,
                           flagAfter |-> LTCorrected, exception |-> FALSE,
                           from |-> <<sFrom, Back(alto), Back(tenor)>>,
                           previous |-> previous,
                           new |-> <<Back(s2), Back(a2), Back(t2)>>]
              IN  IF aboveRange(s2, a2, t2) \/ voiceCrossing(t2, bass, index)
                  THEN [ok |-> FALSE, soprano |-> s2, alto |-> a2, tenor |-> t2, ub |-> ub2,
                        steps |-> <<step>>]
                  ELSE [canCreateChoraleHelper(chords, n, s2, a2, t2, bass, index + 1,
                                               LTCorrected, key, g, ub2)
                            EXCEPT !.steps = <<step>> \o @]
         ELSE IF At(bass, index) > At(bass, index - 1)
         THEN LET lt == leadingTone(chords, soprano, bass, index, key)
                  sFrom == IF LTCorrected THEN Back(soprano) - 3 ELSE Back(soprano)
                  s2 == IF lt THEN Append(soprano, Back(soprano) + 1)
                        ELSE Append(soprano, nextLowerNote(entry, sFrom, g))
                  LT2 == IF lt THEN TRUE ELSE FALSE
                  a2 == Append(alto, nextLowerNote(entry, Back(alto), g))
                  t2 == Append(tenor, nextLowerNote(entry, Back(tenor), g))
                  ub2 == \/ ub \/ (~lt /\ lowerOutside(entry, sFrom))
                         \/ lowerOutside(entry, Back(alto))
                         \/ lowerOutside(entry, Back(tenor))
                  step == [index |-> index, branch |-> "down", flag |-> LTCorrected,
                           flagAfter |-> LT2, exception |-> lt,
                           from |-> <<IF lt THEN Back(soprano) ELSE sFrom,
                                      Back(alto), Back(tenor)>>,
                           previous |-> previous,
                           new |-> <<Back(s2), Back(a2), Back(t2)>>]
              IN  IF voiceCrossing(t2, bass, index)
                  THEN [ok |-> FALSE, soprano |-> s2, alto |-> a2, tenor |-> t2, ub |-> ub2,
                        steps |-> <<step>>]
                  ELSE [canCreateChoraleHelper(chords, n, s2, a2, t2, bass, index + 1,
                                               LT2, key, g, ub2)
                            EXCEPT !.steps = <<step>> \o @]
         ELSE LET step == [index |-> index, branch |-> "same", flag |-> LTCorrected,
                           flagAfter |-> LTCorrected, exception |-> FALSE,
                           from |-> previous, previous |-> previous, new |-> previous]
              IN  [canCreateChoraleHelper(chords, n, soprano, alto, tenor, bass, index + 1,
                                          LTCorrected, key, g, ub)
                       EXCEPT !.steps = <<step>> \o @]

(* ---------------- canCreateChorale ---------------- *)
\* int highestTonicIndex = ((notesInChords[1].size() - 1) / 3) * 3, lowered by 3
\* when the alto or the tenor would start above its range
firstTonicIndex(tonic) ==
    LET h == ((Len(tonic) - 1) \div 3) * 3
    IN  IF /\ (At(tonic, h - 1) > ALTO_MAX \/ At(tonic, h - 2) > TENOR_MAX)
           /\ At(tonic, h - 3) > SOPRANO_MIN
        THEN h - 3 ELSE h

\* the indices of notesInChords[1] read to fix the first highestTonicIndex: the
\* || reads its right side only when the left is false, the && only when the
\* || is true
firstTonicReads(tonic) ==
    LET h == ((Len(tonic) - 1) \div 3) * 3
    IN  {h - 1}
        \cup (IF At(tonic, h - 1) > ALTO_MAX THEN {} ELSE {h - 2})
        \cup (IF At(tonic, h - 1) > ALTO_MAX \/ At(tonic, h - 2) > TENOR_MAX
              THEN {h - 3} ELSE {})

\* "Reset highest tonic": reads notesInChords[1][highestTonicIndex + 3]
resetTonicIndex(tonic, h, g) == IF Read(tonic, h + 3, g) <= SOPRANO_MAX THEN h + 3 ELSE h

\* the result r of the helper as the result of voicing number attempt, whose
\* pitches were read at the indices reads of notesInChords[1]
voicing(r, attempt, reads) ==
    [ok |-> r.ok, soprano |-> r.soprano, alto |-> r.alto, tenor |-> r.tenor,
     ub |-> r.ub, attempt |-> attempt, attempts |-> <<r.steps>>, reads |-> reads]

\* one starting voicing, read at the indices si, ai, ti of the tonic entry, and
\* its extension by canCreateChoraleHelper; attempt numbers the voicing
startVoicing(chords, n, bass, key, g, si, ai, ti, attempt, ub) ==
    LET tonic == At(n, 1)
    IN  voicing(canCreateChoraleHelper(chords, n, <<Read(tonic, si, g)>>,
                                       <<Read(tonic, ai, g)>>, <<Read(tonic, ti, g)>>,
                                       bass, 1, FALSE, key, g,
                                       \/ ub \/ ~InBounds(tonic, si)
                                       \/ ~InBounds(tonic, ai) \/ ~InBounds(tonic, ti)),
                attempt, {si, ai, ti})

\* the result r of a voicing tried after the voicings of the result tried
laterAttempt(tried, r) ==
    [r EXCEPT !.attempts = tried.attempts \o @, !.reads = tried.reads \cup @]

\* the result r of a part of canCreateChorale whose conditions read
\* notesInChords[1] at the indices of S
alsoRead(r, S) == [r EXCEPT !.reads = @ \cup S]

\* no voicing was tried in this part of the function: the vectors are empty
noVoicing(ub) ==
    [ok |-> FALSE, soprano |-> <<>>, alto |-> <<>>, tenor |-> <<>>, ub |-> ub, attempt |-> 0,
     attempts |-> <<>>, reads |-> {}]

\* the voicings after the second: soprano on the mediant, or on the mediant
\* one octave lower
afterSecond(second, chords, n, bass, key, g, h, low) ==
    LET tonic == At(n, 1)
        ub3 == second.ub \/ ~InBounds(tonic, h + 1)
    IN  IF second.ok THEN second
        ELSE IF Read(tonic, h + 1, g) <= SOPRANO_MAX
        THEN alsoRead(laterAttempt(second,
                                   startVoicing(chords, n, bass, key, g, h + 1, h, h - 1,
                                                3, ub3)),
                      {h + 1})
        ELSE IF low > At(bass, 0)
        THEN alsoRead(laterAttempt(second,
                                   startVoicing(chords, n, bass, key, g, h - 2, h, h - 1,
                                                4, ub3)),
                      {h + 1, h - 4})
        ELSE alsoRead(laterAttempt(second, noVoicing(ub3)), {h + 1, h - 4})

\* the second voicing: soprano on the highest tonic, mediant to alto and
\* dominant to tenor, tried when the dominant lies above the bass and TENOR_MIN
laterVoicings(chords, n, bass, key, g, h1, ub) ==
    LET tonic == At(n, 1)
        ub1 == ub \/ ~InBounds(tonic, h1 + 3)
        h == resetTonicIndex(tonic, h1, g)
        low == Read(tonic, h - 4, g)
        ub2 == ub1 \/ ~InBounds(tonic, h - 4)
    IN  alsoRead(afterSecond(IF low > At(bass, 0) /\ low > TENOR_MIN
                             THEN startVoicing(chords, n, bass, key, g, h, h - 2, h - 4,
                                               2, ub2)
                             ELSE noVoicing(ub2),
                             chords, n, bass, key, g, h, low),
                 {h1 + 3, h - 4})

\* the voicings after the first, tried when the first does not extend
afterFirst(first, chords, n, bass, key, g, h1) ==
    IF first.ok THEN first
    ELSE laterAttempt(first, laterVoicings(chords, n, bass, key, g, h1, first.ub))

canCreateChorale(chords, n, bass, key, g) ==
    LET h1 == firstTonicIndex(At(n, 1))
    IN  alsoRead(afterFirst(startVoicing(chords, n, bass, key, g, h1, h1 - 1, h1 - 2,
                                         1, FALSE),
                            chords, n, bass, key, g, h1),
                 firstTonicReads(At(n, 1)))

(* ---------------- getNotes ---------------- *)
Min(a, b) == IF a <= b THEN a ELSE b

\* the starting notes getNotes accepts
StartNotes == BASS_MIN..Min(BASS_MAX, MaxStart)

\* the next notes getNotes accepts after startNote
ScaleNotes(startNote, key) ==
    {x \in BASS_MIN..BASS_MAX : ~notInScale(x, startNote, key)}

\* the notes on which getNotes accepts "done"
EndNotes(startNote, key) ==
    {x \in ScaleNotes(startNote, key) : CRem(x - startNote, 12) = 0}

\* the bass lines getNotes returns: 3 or more notes, each in range and in the
\* scale of the first, the last one a I
BassLines(key) ==
    UNION {{<<st>> \o mid \o <<en>> :
                mid \in [1..(len - 2) -> ScaleNotes(st, key)], en \in EndNotes(st, key)} :
           st \in StartNotes, len \in 3..MaxLen}

(* ---------------- main ---------------- *)
VARIABLES pc, majorKey, chordRelations, bass, chords, notesInChords,
          soprano, alto, tenor, outcome, degree, distance, log, call

vars == <<pc, majorKey, chordRelations, bass, chords, notesInChords,
          soprano, alto, tenor, outcome, degree, distance, log, call>>

\* log: what the two solvers did during the solve on display (nothing yet);
\* tonicReads are the indices canCreateChorale read notesInChords[1] at
emptyLog == [undos |-> {}, inversions |-> {}, attempts |-> <<>>, tonicReads |-> {}]

\* call: the nearest-note call under examination (none in the menu loop)
noCall == [chord |-> <<>>, note |-> 0, at |-> 0, value |-> 0, status |-> "none"]

\* the part of the log the progression search p wrote
searched(p) == [emptyLog EXCEPT !.undos = p.undos, !.inversions = p.inversions]

\* the outcome of a solve whose progression p was voiced as v over the catalog n
voiced(p, n, v) ==
    [outcome |-> IF v.ok THEN "Success" ELSE "VoiceLeadingNotFound",
     chords |-> p.chords, notesInChords |-> n,
     soprano |-> v.soprano, alto |-> v.alto, tenor |-> v.tenor,
     log |-> [searched(p) EXCEPT !.attempts = v.attempts, !.tonicReads = v.reads]]

\* the outcomes of the voice leading, v0 being its run with one value for
\* the reads outside a vector
voicedOutcomes(p, n, v0, b, key) ==
    IF ~v0.ub
    THEN {voiced(p, n, v0)}
    ELSE {voiced(p, n, canCreateChorale(p.chords, n, b, key, g)) : g \in Garbage}
         \cup {[outcome |-> "Crash", chords |-> p.chords, notesInChords |-> n,
                soprano |-> <<>>, alto |-> <<>>, tenor |-> <<>>, log |-> searched(p)]}

\* the outcomes of a solve whose progression search returned p
solved(p, n, b, key) ==
    IF ~p.ok
    THEN {[outcome |-> "ProgressionNotFound", chords |-> p.chords,
           notesInChords |-> <<>>, soprano |-> <<>>, alto |-> <<>>, tenor |-> <<>>,
           log |-> searched(p)]}
    ELSE voicedOutcomes(p, n, canCreateChorale(p.chords, n, b, key, 0), b, key)

\* what menu choice 1 ends with, for the bass line b typed in a key
\* of mode key, with the relation table rel
Outcomes(b, rel, key) ==
    solved(createChordProgression(b, rel, key), establishNotesInChords(At(b, 0), key), b, key)

Init ==
    /\ pc = "menu"
    /\ majorKey = TRUE
    /\ chordRelations = <<>>
    /\ bass = <<>>
    /\ chords = <<>>
    /\ notesInChords = <<>>
    /\ soprano = <<>>
    /\ alto = <<>>
    /\ tenor = <<>>
    /\ outcome = "none"
    /\ degree = 0
    /\ distance = 0
    /\ log = emptyLog
    /\ call = noCall

\* menu choice 1, up to the end of the display of the chorale
Solve(b, key) ==
    /\ pc = "menu"
    /\ chordRelations' = setUpChordRels(majorKey)
    /\ majorKey' = key
    /\ bass' = b
    /\ \E r \in Outcomes(b, setUpChordRels(majorKey), key) :
          /\ outcome' = r.outcome
          /\ chords' = r.chords
          /\ notesInChords' = r.notesInChords
          /\ soprano' = r.soprano
          /\ alto' = r.alto
          /\ tenor' = r.tenor
          /\ log' = r.log
    /\ pc' = "shown"
    /\ UNCHANGED <<degree, distance, call>>

\* the end of the block of menu choice 1: its local vectors are gone
EndSolve ==
    /\ pc = "shown"
    /\ pc' = "menu"
    /\ chordRelations' = <<>>
    /\ bass' = <<>>
    /\ chords' = <<>>
    /\ notesInChords' = <<>>
    /\ soprano' = <<>>
    /\ alto' = <<>>
    /\ tenor' = <<>>
    /\ outcome' = "none"
    /\ log' = emptyLog
    /\ UNCHANGED <<majorKey, degree, distance, call>>

\* menu choice Q
Quit ==
    /\ pc = "menu"
    /\ pc' = "quit"
    /\ UNCHANGED <<majorKey, chordRelations, bass, chords, notesInChords,
                   soprano, alto, tenor, outcome, degree, distance, log, call>>

SolveAny == \E key \in BOOLEAN : \E b \in BassLines(key) : Solve(b, key)

Next == SolveAny \/ EndSolve \/ Quit

Spec == Init /\ [][Next]_vars

(* ---------------- establishNotesInChords, pass by pass ---------------- *)
\* The table of establishNotesInChords(startNote, majorKey) for every starting
\* note getNotes accepts and both modes, built one pass of its loop at a time:
\* bass holds the starting note, degree the loop's i, distance its distance.
CatalogInit ==
    /\ pc = "catalog"
    /\ majorKey \in BOOLEAN
    /\ chordRelations = <<>>
    /\ \E st \in BASS_MIN..BASS_MAX : bass = <<st>>
    /\ chords = <<>>
    /\ notesInChords = emptyNotesInChords
    /\ soprano = <<>>
    /\ alto = <<>>
    /\ tenor = <<>>
    /\ outcome = "none"
    /\ degree = 1
    /\ distance = 0
    /\ log = emptyLog
    /\ call = noCall

FillNext ==
    /\ pc = "catalog"
    /\ degree <= lastDegree(majorKey)
    /\ notesInChords' = fillDegree(notesInChords, degree,
                                   lowestOctave(At(bass, 0)) + distance, majorKey)
    /\ distance' = nextDistance(distance, degree, majorKey)
    /\ degree' = degree + 1
    /\ UNCHANGED <<pc, majorKey, chordRelations, bass, chords, soprano, alto, tenor,
                   outcome, log, call>>

SpecCatalog == CatalogInit /\ [][FillNext]_vars

\* the loop of establishNotesInChords has ended
CatalogBuilt == pc = "catalog" /\ degree > lastDegree(majorKey)

(* ---------------- nextLowerNote, nextHigherNote, call by call ---------------- *)
\* highest pitch of a vector handed to the two searches
MaxPitch == 5

\* the sorted vector that holds the pitches of S
RECURSIVE Ascending(_)
Ascending(S) ==
    IF S = {} THEN <<>>
    ELSE LET m == CHOOSE x \in S : \A y \in S : x <= y
         IN  <<m>> \o Ascending(S \ {m})

\* One call of nextLowerNote or of nextHigherNote for every sorted vector of
\* pitches of 0..MaxPitch and every note from one below to one above them.
NearestInit ==
    /\ pc = "nearest"
    /\ majorKey = TRUE
    /\ chordRelations = <<>>
    /\ bass = <<>>
    /\ chords = <<>>
    /\ notesInChords = <<>>
    /\ soprano = <<>>
    /\ alto = <<>>
    /\ tenor = <<>>
    /\ outcome = "none"
    /\ degree = 0
    /\ distance = 0
    /\ log = emptyLog
    /\ \E S \in SUBSET (0..MaxPitch) : \E t \in -1..(MaxPitch + 1) :
          call = [noCall EXCEPT !.chord = Ascending(S), !.note = t]

\* what a call that reads chord[at] ends with: the element read; outside the
\* vector the read is undefined and the call returns some value or crashes
Returns(at, g) ==
    {[call EXCEPT !.at = at, !.value = Read(call.chord, at, g), !.status = "returned"]}
    \cup (IF InBounds(call.chord, at) THEN {}
          ELSE {[call EXCEPT !.at = at, !.status = "crashed"]})

LowerNote ==
    /\ pc = "nearest"
    /\ pc' = "lower"
    /\ \E g \in Garbage :
          call' \in Returns(lowerIndex(call.chord, call.note, 0, Len(call.chord) - 1), g)
    /\ UNCHANGED <<majorKey, chordRelations, bass, chords, notesInChords, soprano, alto,
                   tenor, outcome, degree, distance, log>>

HigherNote ==
    /\ pc = "nearest"
    /\ pc' = "higher"
    /\ \E g \in Garbage :
          call' \in Returns(higherIndex(call.chord, call.note, 0, Len(call.chord) - 1), g)
    /\ UNCHANGED <<majorKey, chordRelations, bass, chords, notesInChords, soprano, alto,
                   tenor, outcome, degree, distance, log>>

SpecNearest == NearestInit /\ [][LowerNote \/ HigherNote]_vars

(* ---------------- createChordProgression, call by call ---------------- *)
\* longest bass line handed to the search
ProgLen == 5
\* highest starting note of such a bass line
ProgStart == 1
\* highest note of such a bass line
ProgTop == 11

\* the notes getNotes accepts after startNote, up to ProgTop
ProgNotes(startNote, key) == {x \in ScaleNotes(startNote, key) : x <= ProgTop}

\* One call of createChordProgression for every such bass line in either mode,
\* with the table main built before: that of the mode of the solve before.
ProgressionInit ==
    /\ pc = "progression"
    /\ majorKey \in BOOLEAN
    /\ \E before \in BOOLEAN : chordRelations = setUpChordRels(before)
    /\ \E st \in BASS_MIN..Min(BASS_MAX, ProgStart) : \E len \in 3..ProgLen :
          \E mid \in [1..(len - 2) -> ProgNotes(st, majorKey)] :
              \E en \in ProgNotes(st, majorKey) \cap EndNotes(st, majorKey) :
                  bass = <<st>> \o mid \o <<en>>
    /\ chords = <<>>
    /\ notesInChords = <<>>
    /\ soprano = <<>>
    /\ alto = <<>>
    /\ tenor = <<>>
    /\ outcome = "none"
    /\ degree = 0
    /\ distance = 0
    /\ log = emptyLog
    /\ call = noCall

CreateProgression ==
    /\ pc = "progression"
    /\ pc' = "searched"
    /\ LET p == createChordProgression(bass, chordRelations, majorKey)
       IN  /\ chords' = p.chords
           /\ outcome' = IF p.ok THEN "ProgressionFound" ELSE "ProgressionNotFound"
           /\ log' = [emptyLog EXCEPT !.undos = p.undos, !.inversions = p.inversions]
    /\ UNCHANGED <<majorKey, chordRelations, bass, notesInChords, soprano, alto, tenor,
                   degree, distance, call>>

SpecProgression == ProgressionInit /\ [][CreateProgression]_vars

(* ---------------- canCreateChorale, call by call ---------------- *)
\* longest bass line handed to the voice leading
VoiceLen == 5
\* highest starting note of such a bass line
VoiceStart == 0
\* highest note of such a bass line
VoiceTop == 19

\* the notes getNotes accepts after startNote, up to VoiceTop
VoiceNotes(startNote, key) == {x \in ScaleNotes(startNote, key) : x <= VoiceTop}

\* One call of canCreateChorale for every such bass line, in either mode, for
\* which createChordProgression has found a progression in the first solve of
\* a session (the table is the one main built while majorKey was still true).
\* A progression is found only if the chord of position length-2 is 5, which
\* takes a bass note of degree 5 or 7 there: the other lines are left out
\* before the search is run.
VoiceInit ==
    /\ pc = "progressed"
    /\ majorKey \in BOOLEAN
    /\ chordRelations = setUpChordRels(TRUE)
    /\ \E st \in BASS_MIN..Min(BASS_MAX, VoiceStart) : \E len \in 3..VoiceLen :
          \E mid \in [1..(len - 2) -> VoiceNotes(st, majorKey)] :
              \E en \in VoiceNotes(st, majorKey) \cap EndNotes(st, majorKey) :
                  /\ distanceToChord(CRem(mid[len - 2] - st, 12), majorKey) \in {5, 7}
                  /\ bass = <<st>> \o mid \o <<en>>
    /\ LET p == createChordProgression(bass, chordRelations, majorKey)
       IN  /\ p.ok
           /\ chords = p.chords
           /\ log = [emptyLog EXCEPT !.undos = p.undos, !.inversions = p.inversions]
    /\ notesInChords = establishNotesInChords(At(bass, 0), majorKey)
    /\ soprano = <<>>
    /\ alto = <<>>
    /\ tenor = <<>>
    /\ outcome = "ProgressionFound"
    /\ degree = 0
    /\ distance = 0
    /\ call = noCall

CreateChorale ==
    /\ pc = "progressed"
    /\ pc' = "voiced"
    /\ \E r \in Outcomes(bass, chordRelations, majorKey) :
          /\ outcome' = r.outcome
          /\ soprano' = r.soprano
          /\ alto' = r.alto
          /\ tenor' = r.tenor
          /\ log' = r.log
    /\ UNCHANGED <<majorKey, chordRelations, bass, chords, notesInChords,
                   degree, distance, call>>

SpecVoice == VoiceInit /\ [][CreateChorale]_vars

(* ---------------- canCreateChorale on bass lines that start high ---------------- *)
\* longest such bass line
HighLen == 4
\* lowest and highest starting note of such a bass line
HighLow == 16
HighStart == 17

\* One call of canCreateChorale for every bass line getNotes accepts that
\* starts on a note of HighLow..HighStart, in either mode, for which
\* createChordProgression has found a progression in the first solve of a
\* session.  The later notes are any notes of the keyboard in the scale.
HighInit ==
    /\ pc = "progressed"
    /\ majorKey \in BOOLEAN
    /\ chordRelations = setUpChordRels(TRUE)
    /\ \E st \in HighLow..Min(BASS_MAX, HighStart) : \E len \in 3..HighLen :
          \E mid \in [1..(len - 2) -> ScaleNotes(st, majorKey)] :
              \E en \in EndNotes(st, majorKey) :
                  bass = <<st>> \o mid \o <<en>>
    /\ LET p == createChordProgression(bass, chordRelations, majorKey)
       IN  /\ p.ok
           /\ chords = p.chords
           /\ log = [emptyLog EXCEPT !.undos = p.undos, !.inversions = p.inversions]
    /\ notesInChords = establishNotesInChords(At(bass, 0), majorKey)
    /\ soprano = <<>>
    /\ alto = <<>>
    /\ tenor = <<>>
    /\ outcome = "ProgressionFound"
    /\ degree = 0
    /\ distance = 0
    /\ call = noCall

SpecHigh == HighInit /\ [][CreateChorale]_vars

(* ======================= the claims ======================= *)
\* createChordProgression returned true
ProgressionFound == outcome \in {"Success", "VoiceLeadingNotFound", "Crash"}

\* canCreateChorale returned true
ChoraleFound == outcome = "Success"

\* the pitch classes of the triad of chord d: its root, third and fifth are
\* the first three pitches of its entry
TriadClasses(n, d) == {At(At(n, d), k) % 12 : k \in 0..2}

\* C1: whenever createChordProgression reports success, chords has degree 1 at
\* index 0, degree 5 at index length-2 and degree 1 at the last index.
C1_FixedDegrees ==
    ProgressionFound =>
        /\ Len(chords) = Len(bass)
        /\ At(chords, 0) = 1
        /\ At(chords, Len(bass) - 2) = 5
        /\ At(chords, Len(bass) - 1) = 1

\* C2: whenever createChordProgression reports success, every adjacent pair of
\* chords is a transition of the relation table the search was given.
C2_PermittedTransitions ==
    ProgressionFound =>
        \A i \in 0..(Len(chords) - 2) :
            /\ InBounds(chordRelations, At(chords, i))
            /\ At(chords, i + 1) \in Range(At(chordRelations, At(chords, i)))

\* C3: when both solvers succeed, chords, soprano, alto and tenor have exactly
\* as many elements as the bass line.
C3_SameLength ==
    ChoraleFound =>
        /\ Len(chords) = Len(bass)
        /\ Len(soprano) = Len(bass)
        /\ Len(alto) = Len(bass)
        /\ Len(tenor) = Len(bass)

\* C4: whenever canCreateChorale returns true, every pitch of every voice line
\* lies inside that voice's range.
C4_InRange ==
    ChoraleFound =>
        /\ \A k \in 1..Len(soprano) : soprano[k] \in SOPRANO_MIN..SOPRANO_MAX
        /\ \A k \in 1..Len(alto) : alto[k] \in ALTO_MIN..ALTO_MAX
        /\ \A k \in 1..Len(tenor) : tenor[k] \in TENOR_MIN..TENOR_MAX

\* C5: whenever canCreateChorale returns true, for every index i with
\* i+1 < bass length the tenor at i is not below the bass at i+1.
C5_TenorAboveNextBass ==
    ChoraleFound =>
        \A i \in 0..(Len(bass) - 2) :
            InBounds(tenor, i) /\ At(tenor, i) >= At(bass, i + 1)

\* C6: whenever canCreateChorale returns true, for every index i each of
\* soprano[i], alto[i], tenor[i] is an element of notesInChords[chords[i]].
C6_PitchesFromCatalog ==
    ChoraleFound =>
        \A i \in 0..(Len(bass) - 1) :
            \A v \in {soprano, alto, tenor} :
                /\ InBounds(v, i)
                /\ InBounds(chords, i)
                /\ At(v, i) \in Range(At(notesInChords, At(chords, i)))

\* C7: in every chorale returned as a success, at every index the four pitches
\* modulo 12 cover root, third and fifth of the triad of chords[i] (and nothing
\* else, so that exactly one tone is doubled).
C7_TriadCovered ==
    ChoraleFound =>
        \A i \in 0..(Len(bass) - 1) :
            /\ InBounds(soprano, i) /\ InBounds(alto, i) /\ InBounds(tenor, i)
            /\ InBounds(chords, i)
            /\ {At(bass, i) % 12, At(tenor, i) % 12, At(alto, i) % 12, At(soprano, i) % 12}
                   = TriadClasses(notesInChords, At(chords, i))

\* two voices move in the same direction from index i to i+1 and are a fifth
\* apart at both, or an octave (or unison) apart at both
Parallel(u, v, i) ==
    /\ \/ At(u, i + 1) > At(u, i) /\ At(v, i + 1) > At(v, i)
       \/ At(u, i + 1) < At(u, i) /\ At(v, i + 1) < At(v, i)
    /\ \E iv \in {0, 7} :
          /\ (At(v, i) - At(u, i)) % 12 = iv
          /\ (At(v, i + 1) - At(u, i + 1)) % 12 = iv

\* C8: in every chorale returned as a success no two voices, the lower one
\* named first, move in parallel fifths or octaves between adjacent indices.
C8_NoParallels ==
    ChoraleFound =>
        LET voices == <<bass, tenor, alto, soprano>>
        IN  \A x \in 1..4 : \A y \in (x + 1)..4 :
                \A i \in 0..(Len(bass) - 2) :
                    (InBounds(voices[x], i + 1) /\ InBounds(voices[y], i + 1))
                        => ~Parallel(voices[x], voices[y], i)

\* C9: every entry of the table built by establishNotesInChords is strictly
\* ascending and holds no value above 43, for every starting note and both modes.
C9_AscendingInRange ==
    pc = "catalog" =>
        \A d \in 1..Len(notesInChords) :
            LET e == notesInChords[d]
            IN  /\ \A k \in 1..(Len(e) - 1) : e[k] < e[k + 1]
                /\ \A k \in 1..Len(e) : e[k] <= SOPRANO_MAX

\* the whole table is built and its last entry is filled up to the top of the range
C9_Witness ==
    /\ CatalogBuilt
    /\ ~majorKey
    /\ At(bass, 0) = BASS_MAX
    /\ Len(At(notesInChords, 8)) > 3
    /\ Back(At(notesInChords, 8)) > SOPRANO_MAX - 5

\* C10: the entry of every degree valid in the mode holds every pitch of
\* [0,43] whose pitch class is the root, the third or the fifth of the degree.
C10_EveryTriadPitch ==
    CatalogBuilt =>
        \A d \in 1..lastDegree(majorKey) :
            \A q \in BASS_MIN..SOPRANO_MAX :
                q % 12 \in TriadClasses(notesInChords, d)
                    => q \in Range(At(notesInChords, d))

\* the note of the call lies between the first and the last pitch of its vector
NoteInside ==
    /\ call.chord # <<>>
    /\ At(call.chord, 0) <= call.note
    /\ call.note <= Back(call.chord)

\* C11: for a non-empty strictly ascending vector and a note between its first
\* and its last pitch, nextLowerNote returns the largest pitch not above the
\* note and nextHigherNote the smallest pitch not below it; both return the note
\* itself when the vector holds it.
C11_NearestInside ==
    (pc \in {"lower", "higher"} /\ NoteInside) =>
        /\ call.status = "returned"
        /\ call.value \in Range(call.chord)
        /\ pc = "lower" =>
               /\ call.value <= call.note
               /\ \A x \in Range(call.chord) : x <= call.note => x <= call.value
        /\ pc = "higher" =>
               /\ call.value >= call.note
               /\ \A x \in Range(call.chord) : x >= call.note => x >= call.value
        /\ call.note \in Range(call.chord) => call.value = call.note

\* nextHigherNote has returned for a note that lies strictly between two pitches
\* of a vector of three or more
C11_Witness ==
    /\ pc = "higher"
    /\ NoteInside
    /\ Len(call.chord) >= 3
    /\ call.note \notin Range(call.chord)
    /\ call.value > call.note

\* C12: a call of nextLowerNote with a note below the first pitch of the vector,
\* or of nextHigherNote with a note above its last pitch, or of either with an
\* empty vector, ends as an internal error of its own and never with a value
\* read from outside the vector.
C12_OutsideSurfaced ==
    LET empty == call.chord = <<>>
        below == empty \/ call.note < At(call.chord, 0)
        above == empty \/ call.note > Back(call.chord)
    IN  ((pc = "lower" /\ below) \/ (pc = "higher" /\ above)) =>
            /\ call.status = "internal error"
            /\ InBounds(call.chord, call.at)

\* C13: for each mode and each degree d the root pitch of the entry that
\* establishNotesInChords fills for d (its first pitch) lies at a distance r
\* above the starting note in the lowest octave with distanceToChord(r) = d; in
\* a minor key the distances of the degrees 1..8 are 0, 2, 3, 5, 7, 8, 11, 10.
C13_RootInvertsDegree ==
    pc = "catalog" =>
        \A d \in 1..(degree - 1) :
            LET entry == At(notesInChords, d)
                r == At(entry, 0) - lowestOctave(At(bass, 0))
            IN  /\ entry # <<>>
                /\ distanceToChord(r, majorKey) = d
                /\ ~majorKey => r = At(<<0, 2, 3, 5, 7, 8, 11, 10>>, d - 1)

\* C14: in any sequence of solves the relation table a solve consults is the
\* table of its own key mode (the minor table, with 1 -> 8 and the entry of 8,
\* exactly when the solve is in a minor key), and the solve ends with the chord
\* sequence or the failure that the same bass line and mode give when they are
\* the first solve of the session (majorKey is true when the program starts).
C14_OwnTable ==
    pc = "shown" =>
        /\ chordRelations = setUpChordRels(majorKey)
        /\ LET first == createChordProgression(bass, setUpChordRels(TRUE), majorKey)
           IN  /\ ProgressionFound <=> first.ok
               /\ chords = first.chords

\* C15: the undo of the backtracking search restores the accumulator: after a
\* candidate was appended and the recursive call on it failed, chords is again,
\* element for element, what it was before the candidate was appended.
C15_UndoRestores ==
    pc = "shown" => \A u \in log.undos : u.after = u.before

\* the root-position candidate of position k of a bass line: the degree of
\* the bass note, 5 in place of 7
RootCandidate(b, k, key) ==
    LET c == distanceToChord(CRem(At(b, k) - At(b, 0), 12), key)
    IN  IF c = 7 THEN 5 ELSE c

\* the first-inversion candidate of position k
InversionCandidate(b, k, key) ==
    firstInversion(b, k - 1, At(b, 0), RootCandidate(b, k, key), key)

\* there is a choice of one candidate for each of the positions k..length-2
\* that continues a chain ending in prev at position k-1: every pair of
\* neighbours is in the table rel and the chord of position length-2 is 5
RECURSIVE Completes(_, _, _, _, _)
Completes(b, rel, key, k, prev) ==
    IF k = Len(b) - 1 THEN prev = 5
    ELSE \E c \in {RootCandidate(b, k, key), InversionCandidate(b, k, key)} :
            /\ InBounds(rel, prev)
            /\ c \in Range(At(rel, prev))
            /\ Completes(b, rel, key, k + 1, c)

\* C16: createChordProgression returns failure exactly when there is no choice,
\* for each of the positions 1..length-2, of the root-position or the
\* first-inversion candidate of that position such that the chain that starts
\* with degree 1 has every pair of neighbours in the relation table and degree 5
\* at position length-2.
C16_FailsIffNoChain ==
    pc = "searched" =>
        (outcome = "ProgressionNotFound" <=> ~Completes(bass, chordRelations, majorKey, 1, 1))

\* a search over four or more notes has failed after taking candidates back
C16_Witness ==
    /\ pc = "searched"
    /\ outcome = "ProgressionNotFound"
    /\ Len(bass) >= 4
    /\ \E u \in log.undos : u.index > 0

\* the first complete chain in depth-first order from position k on, after
\* prev at position k-1: at each position the root-position candidate if a
\* chain can be completed with it, the first-inversion candidate otherwise;
\* the last chord is 1
RECURSIVE FirstChain(_, _, _, _, _)
FirstChain(b, rel, key, k, prev) ==
    IF k = Len(b) - 1 THEN <<1>>
    ELSE LET root == RootCandidate(b, k, key)
             rootCompletes == /\ InBounds(rel, prev)
                              /\ root \in Range(At(rel, prev))
                              /\ Completes(b, rel, key, k + 1, root)
             c == IF rootCompletes THEN root ELSE InversionCandidate(b, k, key)
         IN  <<c>> \o FirstChain(b, rel, key, k + 1, c)

\* C17: the chord sequence createChordProgression returns is the first complete
\* valid sequence in depth-first order with the root-position candidate tried
\* before the first-inversion candidate at each position: a first-inversion
\* chord stands at a position only when no valid completion has the
\* root-position candidate there after the chords chosen before it.
C17_FirstChainReturned ==
    (pc = "searched" /\ outcome = "ProgressionFound") =>
        chords = <<1>> \o FirstChain(bass, chordRelations, majorKey, 1, 1)

\* C18: at a recursion index k <= length-3, with nextChord the degree of
\* bass[k+1] (5 in place of 7), the first-inversion candidate is nextChord - 2
\* when nextChord is not 2; when it is 2 the candidate is 7 in a major key and,
\* in a minor key, 8 exactly when the degree of bass[k+2] is 3 and 7 otherwise;
\* the read of bass[k+2] is inside the bass line.
C18_InversionRule ==
    pc = "searched" =>
        \A i \in log.inversions :
            /\ i.index <= Len(bass) - 3
            /\ i.nextChord = RootCandidate(bass, i.index + 1, majorKey)
            /\ \A r \in i.reads : InBounds(bass, r)
            /\ i.candidate =
                  IF i.nextChord # 2 THEN i.nextChord - 2
                  ELSE IF majorKey THEN 7
                  ELSE IF distanceToChord(CRem(Read(bass, i.index + 2, 0) - At(bass, 0), 12),
                                          majorKey) = 3
                       THEN 8 ELSE 7

\* a search in a minor key has computed the candidate 8 for a II, and has
\* computed the candidate of a II at the last index that has one, where
\* bass[k+2] is the last note
C18_Witness ==
    /\ pc = "searched"
    /\ ~majorKey
    /\ \E i \in log.inversions : i.nextChord = 2 /\ i.candidate = 8
    /\ \E j \in log.inversions :
          j.nextChord = 2 /\ j.index = Len(bass) - 3 /\ j.reads = {Len(bass) - 1}

\* the steps of all the starting voicings tried
AllSteps == UNION {Range(log.attempts[a]) : a \in 1..Len(log.attempts)}

\* the pitches of the entry of the chord of a step
StepEntry(st) == Range(At(notesInChords, At(chords, st.index)))

FallsOrFourth(st) ==
    \/ At(bass, st.index) < At(bass, st.index - 1)
    \/ At(bass, st.index) - At(bass, st.index - 1) = 5

\* voice v (1 soprano, 2 alto, 3 tenor) receives the smallest pitch of the
\* entry that is not below the note passed for it, if the entry has one
SmallestAbove(st, v) ==
    (\E x \in StepEntry(st) : x >= st.from[v]) =>
        /\ st.new[v] \in StepEntry(st)
        /\ st.new[v] >= st.from[v]
        /\ \A x \in StepEntry(st) : x >= st.from[v] => x >= st.new[v]

Rises(st) ==
    /\ At(bass, st.index) > At(bass, st.index - 1)
    /\ At(bass, st.index) - At(bass, st.index - 1) # 5

\* the chord before the step is 5 and the soprano is on the leading tone, 11
\* above the tonic
LeadingToneHeld(st) ==
    /\ At(chords, st.index - 1) = 5
    /\ (st.previous[1] - At(bass, 0)) % 12 = 11

\* voice v receives the largest pitch of the entry that is not above the note
\* passed for it, if the entry has one
LargestBelow(st, v) ==
    (\E x \in StepEntry(st) : x <= st.from[v]) =>
        /\ st.new[v] \in StepEntry(st)
        /\ st.new[v] <= st.from[v]
        /\ \A x \in StepEntry(st) : x <= st.from[v] => x <= st.new[v]

\* what C20 and its amended form have in common, for the steps S of one
\* starting voicing: the flag is false at the start and carried from step to
\* step; the exception is taken exactly where the bass rises (not by 5) after
\* a chord 5 with the soprano on the leading tone, moves the soprano up by one
\* and sets the flag; a closest-downward step without the exception searches
\* the soprano from (previous - 3) if the flag is set and from the previous
\* pitch if not, and leaves the flag false
FlagRule(S) ==
    \A k \in 1..Len(S) :
        LET st == S[k]
        IN  /\ st.flag = (IF k = 1 THEN FALSE ELSE S[k - 1].flagAfter)
            /\ st.branch = "down" <=> Rises(st)
            /\ st.exception <=> (Rises(st) /\ LeadingToneHeld(st))
            /\ st.exception => (st.new[1] = st.previous[1] + 1 /\ st.flagAfter)
            /\ (st.branch = "down" /\ ~st.exception) =>
                  /\ st.from[1] = (IF st.flag THEN st.previous[1] - 3 ELSE st.previous[1])
                  /\ LargestBelow(st, 1)
                  /\ ~st.flagAfter

\* C20: the leading-tone flag is false at the start of every starting voicing;
\* it becomes true exactly at a step where the bass rises (not by 5), the
\* previous chord is 5 and the previous soprano pitch is the leading tone, and
\* there the soprano is its previous pitch + 1; at the first later
\* closest-downward step without the exception the soprano is computed from
\* (previous pitch - 3) and the flag becomes false; at every other step the
\* soprano is computed from its previous pitch.
C20_FlagTransient ==
    pc = "voiced" =>
        \A a \in 1..Len(log.attempts) :
            LET S == log.attempts[a]
            IN  /\ FlagRule(S)
                /\ \A k \in 1..Len(S) :
                      S[k].branch = "up" => S[k].from[1] = S[k].previous[1]

\* C20, amended: as C20, but a closest-upward step (the bass falls or rises by
\* 5) that finds the flag set also computes the soprano from (previous pitch -
\* 3), and leaves the flag set: the flag stays true over closest-upward steps
\* and steps where the bass repeats its note, until a closest-downward step
\* without the exception clears it.
C20_FlagUntilDownward ==
    pc = "voiced" =>
        \A a \in 1..Len(log.attempts) :
            LET S == log.attempts[a]
            IN  /\ FlagRule(S)
                /\ \A k \in 1..Len(S) :
                      /\ S[k].branch = "up" =>
                            /\ S[k].from[1] = (IF S[k].flag THEN S[k].previous[1] - 3
                                               ELSE S[k].previous[1])
                            /\ SmallestAbove(S[k], 1)
                      /\ S[k].branch \in {"up", "same"} => S[k].flagAfter = S[k].flag

\* in one starting voicing the exception has set the flag, and a later
\* closest-downward step without the exception has computed the soprano from
\* (previous pitch - 3) and cleared the flag
C20_Witness ==
    /\ pc = "voiced"
    /\ \E a \in 1..Len(log.attempts) :
          LET S == log.attempts[a]
          IN  \E k \in 1..Len(S) : \E j \in (k + 1)..Len(S) :
                  /\ S[k].exception
                  /\ S[j].branch = "down"
                  /\ ~S[j].exception
                  /\ S[j].flag
                  /\ S[j].from[1] = S[j].previous[1] - 3
                  /\ S[j].new[1] \in StepEntry(S[j])
                  /\ ~S[j].flagAfter

\* the voices of a step for which a nearest-note call is made: all three,
\* but for the soprano of a leading-tone exception and a repeated bass note
Searched(st) ==
    IF st.branch = "same" THEN {}
    ELSE IF st.exception THEN {2, 3} ELSE {1, 2, 3}

\* the entry passed at a step is not empty and the note passed for voice v
\* lies between its first and its last pitch
NoteWithin(st, v) ==
    LET entry == At(notesInChords, At(chords, st.index))
    IN  /\ Len(entry) > 0
        /\ At(entry, 0) <= st.from[v]
        /\ st.from[v] <= Back(entry)

\* C21: every call canCreateChoraleHelper makes to nextLowerNote or
\* nextHigherNote, in every starting voicing tried for a bass line with a chord
\* progression, passes a non-empty catalog entry and a note between the first
\* and the last pitch of that entry (the notes previous soprano - 3 included).
C21_PreconditionMet ==
    \A st \in AllSteps : \A v \in Searched(st) : NoteWithin(st, v)

\* C22: every index at which canCreateChorale reads notesInChords[1]
\* (highestTonicIndex and its offsets -4, -3, -2, -1, +1, +3, whatever the
\* earlier voicings came to) is at least 0 and below the length of the entry.
C22_TonicReadsInside ==
    \A i \in log.tonicReads : InBounds(At(notesInChords, 1), i)

====
